---- MODULE Spec2Model ----
(***************************************************************************)
(* A model of the take-home service: the Base64 value codec                *)
(* (crypto/base64.rs), the HMAC canonical signer (crypto/hmac.rs) and the  *)
(* depth-1 handlers (handlers/encryption.rs, handlers/signing.rs).         *)
(*                                                                         *)
(* Strings and byte vectors are sequences of byte values 0..255 (a Rust    *)
(* String is its UTF-8 bytes).  A JSON value is a tagged record; an object *)
(* is the sequence of its <<key, value>> entries in iteration order, with  *)
(* pairwise different keys.                                                *)
(***************************************************************************)
EXTENDS Integers, Sequences, FiniteSets, TLC

VARIABLES key, pc, call, arg, cand, ret, held

vars == <<key, pc, call, arg, cand, ret, held>>

---------------------------------------------------------------------------
(* Text.  Printable lists the ASCII characters 0x20..0x7e in code order;   *)
(* the double quote, the backslash and the backtick go by name.            *)

Printable ==
  << " ", "!", "DQUOTE", "#", "$", "%", "&", "'", "(", ")", "*", "+", ",", "-",
     ".", "/", "0", "1", "2", "3", "4", "5", "6", "7", "8", "9", ":", ";",
     "<", "=", ">", "?", "@", "A", "B", "C", "D", "E", "F", "G", "H", "I",
     "J", "K", "L", "M", "N", "O", "P", "Q", "R", "S", "T", "U", "V", "W",
     "X", "Y", "Z", "[", "BACKSLASH", "]", "^", "_", "BACKTICK", "a", "b", "c", "d", "e",
     "f", "g", "h", "i", "j", "k", "l", "m", "n", "o", "p", "q", "r", "s",
     "t", "u", "v", "w", "x", "y", "z", "{", "|", "}", "~" >>

\* The byte of an ASCII character given as a one-character string.
Ord(c) == 31 + (CHOOSE i \in 1..Len(Printable) : Printable[i] = c)

\* The byte string of a tuple of one-character strings.
Str(t) == [i \in 1..Len(t) |-> Ord(t[i])]

\* Byte-lexicographic order on strings (str's Ord): a proper prefix is less.
RECURSIVE StrLess(_, _)
StrLess(a, b) ==
  IF b = <<>> THEN FALSE
  ELSE IF a = <<>> THEN TRUE
  ELSE IF a[1] # b[1] THEN a[1] < b[1]
  ELSE StrLess(Tail(a), Tail(b))

\* Concatenation of a sequence of strings (slice::join with "").
RECURSIVE Concat(_)
Concat(ss) == IF ss = <<>> THEN <<>> ELSE ss[1] \o Concat(Tail(ss))

---------------------------------------------------------------------------
(* serde_json::Value.                                                      *)

Null == [t |-> "null"]
Bool(b) == [t |-> "bool", b |-> b]
Number(n) == [t |-> "num", n |-> n]
String(s) == [t |-> "str", s |-> s]
Array(a) == [t |-> "arr", a |-> a]
Object(m) == [t |-> "obj", m |-> m]

\* Value::is_string.
is_string(v) == v.t = "str"

\* The keys of an object's entries, in iteration order.
Keys(m) == [i \in 1..Len(m) |-> m[i][1]]

\* Map::get: the value under key k, if any.
HasKey(m, k) == \E i \in 1..Len(m) : m[i][1] = k
Get(m, k) == m[CHOOSE i \in 1..Len(m) : m[i][1] = k][2]

\* Value's PartialEq: structural, and on objects independent of entry order.
RECURSIVE ValueEq(_, _)
ValueEq(v, w) ==
  IF v.t # w.t THEN FALSE
  ELSE CASE v.t = "null" -> TRUE
         [] v.t = "bool" -> v.b = w.b
         [] v.t = "num" -> v.n = w.n
         [] v.t = "str" -> v.s = w.s
         [] v.t = "arr" ->
              /\ Len(v.a) = Len(w.a)
              /\ \A i \in 1..Len(v.a) : ValueEq(v.a[i], w.a[i])
         [] v.t = "obj" ->
              /\ Len(v.m) = Len(w.m)
              /\ \A i \in 1..Len(v.m) :
                   /\ HasKey(w.m, v.m[i][1])
                   /\ ValueEq(v.m[i][2], Get(w.m, v.m[i][1]))

---------------------------------------------------------------------------
(* serde_json's compact writer: serde_json::to_vec, and Value's Display    *)
(* (format!("{v}")), which write the same text.                            *)

\* Two lower-case hexadecimal digits of a byte.
HexDigit(d) == IF d < 10 THEN 48 + d ELSE 87 + d
Hex2(b) == <<HexDigit(b \div 16), HexDigit(b % 16)>>

\* The decimal digits of a natural number (itoa).
RECURSIVE Digits(_)
Digits(n) == IF n < 10 THEN <<48 + n>> ELSE Digits(n \div 10) \o <<48 + (n % 10)>>

\* An integer number's text.
fmt_number(n) == IF n < 0 THEN Str(<<"-">>) \o Digits(-n) ELSE Digits(n)

\* One byte of a string inside its quotes: the quote, the backslash and the
\* control characters are escaped, every other byte is written as it is.
escape_byte(b) ==
  CASE b = 34 -> Str(<<"BACKSLASH", "DQUOTE">>)
    [] b = 92 -> Str(<<"BACKSLASH", "BACKSLASH">>)
    [] b = 8 -> Str(<<"BACKSLASH", "b">>)
    [] b = 12 -> Str(<<"BACKSLASH", "f">>)
    [] b = 10 -> Str(<<"BACKSLASH", "n">>)
    [] b = 13 -> Str(<<"BACKSLASH", "r">>)
    [] b = 9 -> Str(<<"BACKSLASH", "t">>)
    [] b < 32 /\ b \notin {8, 9, 10, 12, 13} ->
         Str(<<"BACKSLASH", "u", "0", "0">>) \o Hex2(b)
    [] OTHER -> <<b>>

\* A string's text: the escaped bytes between double quotes.
fmt_string(s) ==
  Str(<<"DQUOTE">>) \o Concat([i \in 1..Len(s) |-> escape_byte(s[i])])
    \o Str(<<"DQUOTE">>)

\* The text of a value; arrays and objects are written in iteration order,
\* with no white space.
RECURSIVE to_json(_)
to_json(v) ==
  CASE v.t = "null" -> Str(<<"n", "u", "l", "l">>)
    [] v.t = "bool" ->
         IF v.b THEN Str(<<"t", "r", "u", "e">>)
         ELSE Str(<<"f", "a", "l", "s", "e">>)
    [] v.t = "num" -> fmt_number(v.n)
    [] v.t = "str" -> fmt_string(v.s)
    [] v.t = "arr" ->
         Str(<<"[">>)
           \o Concat([i \in 1..Len(v.a) |->
                       (IF i > 1 THEN Str(<<",">>) ELSE <<>>) \o to_json(v.a[i])])
           \o Str(<<"]">>)
    [] v.t = "obj" ->
         Str(<<"{">>)
           \o Concat([i \in 1..Len(v.m) |->
                       (IF i > 1 THEN Str(<<",">>) ELSE <<>>)
                         \o fmt_string(v.m[i][1]) \o Str(<<":">>)
                         \o to_json(v.m[i][2])])
           \o Str(<<"}">>)

---------------------------------------------------------------------------
(* base64::engine::general_purpose::STANDARD: the alphabet A-Z a-z 0-9 +   *)
(* and /, padded with = to a multiple of four characters.  Decoding takes  *)
(* canonical text only: the padding is required, and the bits of the last  *)
(* character that no byte uses must be zero.                               *)

\* The character of a six-bit value.
B64Char(i) ==
  IF i < 26 THEN 65 + i
  ELSE IF i < 52 THEN 71 + i
  ELSE IF i < 62 THEN i - 4
  ELSE IF i = 62 THEN 43 ELSE 47

\* The six-bit value of a character, -1 for a byte outside the alphabet.
B64Val(c) ==
  IF c >= 65 /\ c <= 90 THEN c - 65
  ELSE IF c >= 97 /\ c <= 122 THEN c - 71
  ELSE IF c >= 48 /\ c <= 57 THEN c + 4
  ELSE IF c = 43 THEN 62
  ELSE IF c = 47 THEN 63 ELSE -1

\* STANDARD.encode.
b64_encode(bytes) ==
  LET n == Len(bytes)
      at(k) == IF k <= n THEN bytes[k] ELSE 0
      ch(j) ==
        LET g == (j - 1) \div 4
            r == (j - 1) % 4
            b1 == at(3 * g + 1)
            b2 == at(3 * g + 2)
            b3 == at(3 * g + 3)
        IN CASE r = 0 -> B64Char(b1 \div 4)
             [] r = 1 -> B64Char((b1 % 4) * 16 + b2 \div 16)
             [] r = 2 -> IF 3 * g + 2 > n THEN 61
                         ELSE B64Char((b2 % 16) * 4 + b3 \div 64)
             [] r = 3 -> IF 3 * g + 3 > n THEN 61 ELSE B64Char(b3 % 64)
  IN [j \in 1..(4 * ((n + 2) \div 3)) |-> ch(j)]

\* STANDARD.decode: [ok |-> FALSE] for an Err, [ok |-> TRUE, bytes |-> ..]
\* for Ok(bytes).
b64_decode(s) ==
  LET n == Len(s)
      pad == IF n > 0 /\ s[n] = 61
             THEN (IF n > 1 /\ s[n - 1] = 61 THEN 2 ELSE 1)
             ELSE 0
      m == n - pad
      sx == [i \in 1..m |-> B64Val(s[i])]
      byte(k) ==
        LET g == 4 * ((k - 1) \div 3)
            r == (k - 1) % 3
        IN CASE r = 0 -> sx[g + 1] * 4 + sx[g + 2] \div 16
             [] r = 1 -> (sx[g + 2] % 16) * 16 + sx[g + 3] \div 4
             [] r = 2 -> (sx[g + 3] % 4) * 64 + sx[g + 4]
  IN IF n % 4 # 0 THEN [ok |-> FALSE]
     ELSE IF \E i \in 1..m : sx[i] < 0 THEN [ok |-> FALSE]
     ELSE IF pad = 1 /\ sx[m] % 4 # 0 THEN [ok |-> FALSE]
     ELSE IF pad = 2 /\ sx[m] % 16 # 0 THEN [ok |-> FALSE]
     ELSE [ok |-> TRUE, bytes |-> [k \in 1..((m * 6) \div 8) |-> byte(k)]]

---------------------------------------------------------------------------
(* serde_json::from_slice: a recursive-descent reader of one JSON text.    *)
(* Each reader returns [ok |-> FALSE] for an Err, or ok, what it read and  *)
(* the index i of the first byte after it.                                 *)
(* Numbers of the model are integers: a fraction, an exponent and the      *)
(* negative zero denote floating-point values, which lie outside the       *)
(* model's values; no text the model reads holds one.                      *)

Err == [ok |-> FALSE]

IsWs(c) == c \in {32, 9, 10, 13}
IsDigit(c) == c >= 48 /\ c <= 57

\* The value of a hexadecimal digit in either case, -1 for any other byte.
HexVal(c) ==
  IF c >= 48 /\ c <= 57 THEN c - 48
  ELSE IF c >= 97 /\ c <= 102 THEN c - 87
  ELSE IF c >= 65 /\ c <= 70 THEN c - 55 ELSE -1

\* The index of the first byte at or after i that is not white space.
RECURSIVE skip_ws(_, _)
skip_ws(b, i) == IF i <= Len(b) /\ IsWs(b[i]) THEN skip_ws(b, i + 1) ELSE i

\* Whether the bytes of b from i on start with the word w.
StartsWith(b, i, w) ==
  /\ i + Len(w) - 1 <= Len(b)
  /\ \A j \in 1..Len(w) : b[i + j - 1] = w[j]

IsCont(b, i) == i <= Len(b) /\ b[i] >= 128 /\ b[i] <= 191

\* The length of the well-formed UTF-8 sequence that starts at b[i] (a byte
\* of 0x80 or more), 0 when there is none.
utf8_len(b, i) ==
  LET c == b[i] IN
  IF c >= 194 /\ c <= 223 THEN (IF IsCont(b, i + 1) THEN 2 ELSE 0)
  ELSE IF c >= 224 /\ c <= 239 THEN
    (IF /\ IsCont(b, i + 1) /\ IsCont(b, i + 2)
        /\ (c = 224 => b[i + 1] >= 160)
        /\ (c = 237 => b[i + 1] <= 159)
     THEN 3 ELSE 0)
  ELSE IF c >= 240 /\ c <= 244 THEN
    (IF /\ IsCont(b, i + 1) /\ IsCont(b, i + 2) /\ IsCont(b, i + 3)
        /\ (c = 240 => b[i + 1] >= 144)
        /\ (c = 244 => b[i + 1] <= 143)
     THEN 4 ELSE 0)
  ELSE 0

\* The UTF-8 bytes of a code point below 0x10000.
utf8_encode(cp) ==
  IF cp < 128 THEN <<cp>>
  ELSE IF cp < 2048 THEN <<192 + (cp \div 64), 128 + (cp % 64)>>
  ELSE <<224 + (cp \div 4096), 128 + ((cp \div 64) % 64), 128 + (cp % 64)>>

\* The four hexadecimal digits at b[i..i+3] as a number, -1 when they are
\* not four hexadecimal digits.
hex4(b, i) ==
  IF i + 3 > Len(b) \/ \E j \in 0..3 : HexVal(b[i + j]) < 0 THEN -1
  ELSE HexVal(b[i]) * 4096 + HexVal(b[i + 1]) * 256
         + HexVal(b[i + 2]) * 16 + HexVal(b[i + 3])

\* The byte an escape letter stands for, -1 for no escape letter.
unescape(e) ==
  CASE e = 34 -> 34
    [] e = 92 -> 92
    [] e = 47 -> 47
    [] e = 98 -> 8
    [] e = 102 -> 12
    [] e = 110 -> 10
    [] e = 114 -> 13
    [] e = 116 -> 9
    [] OTHER -> -1

\* A string's bytes from i, the byte after the opening quote, up to the
\* closing quote; acc holds the bytes read so far.
RECURSIVE parse_str(_, _, _)
parse_str(b, i, acc) ==
  IF i > Len(b) THEN Err
  ELSE IF b[i] = 34 THEN [ok |-> TRUE, s |-> acc, i |-> i + 1]
  ELSE IF b[i] = 92 THEN
    IF i + 1 > Len(b) THEN Err
    ELSE IF b[i + 1] = 117 THEN
      LET cp == hex4(b, i + 2) IN
      IF cp < 0 THEN Err
      ELSE IF cp >= 55296 /\ cp <= 56319 THEN
        \* a high surrogate: the low one must follow as another \u escape
        LET lo == IF StartsWith(b, i + 6, <<92, 117>>) THEN hex4(b, i + 8) ELSE -1
            c == 65536 + (cp - 55296) * 1024 + (lo - 56320)
        IN IF lo < 56320 \/ lo > 57343 THEN Err
           ELSE parse_str(b, i + 12,
                  acc \o <<240 + (c \div 262144), 128 + ((c \div 4096) % 64),
                           128 + ((c \div 64) % 64), 128 + (c % 64)>>)
      ELSE IF cp >= 56320 /\ cp <= 57343 THEN Err
      ELSE parse_str(b, i + 6, acc \o utf8_encode(cp))
    ELSE IF unescape(b[i + 1]) < 0 THEN Err
    ELSE parse_str(b, i + 2, Append(acc, unescape(b[i + 1])))
  ELSE IF b[i] < 32 THEN Err
  ELSE IF b[i] < 128 THEN parse_str(b, i + 1, Append(acc, b[i]))
  ELSE LET k == utf8_len(b, i) IN
       IF k = 0 THEN Err
       ELSE parse_str(b, i + k, acc \o SubSeq(b, i, i + k - 1))

\* The run of decimal digits from b[i] on, as a number.
RECURSIVE read_digits(_, _, _)
read_digits(b, i, acc) ==
  IF i <= Len(b) /\ IsDigit(b[i])
  THEN read_digits(b, i + 1, acc * 10 + (b[i] - 48))
  ELSE [n |-> acc, i |-> i]

\* A number from b[i], a minus sign or a digit.
parse_number(b, i) ==
  LET neg == b[i] = 45
      j == IF neg THEN i + 1 ELSE i
      r == IF b[j] = 48 THEN [n |-> 0, i |-> j + 1] ELSE read_digits(b, j, 0)
  IN IF j > Len(b) \/ ~IsDigit(b[j]) THEN Err
     ELSE IF b[j] = 48 /\ j + 1 <= Len(b) /\ IsDigit(b[j + 1]) THEN Err
     ELSE IF r.i <= Len(b) /\ b[r.i] \in {46, 69, 101} THEN Err
     ELSE IF neg /\ r.n = 0 THEN Err
     ELSE [ok |-> TRUE, v |-> Number(IF neg THEN -r.n ELSE r.n), i |-> r.i]

\* Map::insert: a key already present keeps its place and takes the value.
map_insert(m, k, v) ==
  IF HasKey(m, k)
  THEN [i \in 1..Len(m) |-> IF m[i][1] = k THEN <<k, v>> ELSE m[i]]
  ELSE Append(m, <<k, v>>)

\* The string value of what parse_str read.
string_value(r) ==
  IF r.ok THEN [ok |-> TRUE, v |-> String(r.s), i |-> r.i] ELSE Err

RECURSIVE parse_value(_, _)
RECURSIVE parse_elems(_, _, _)
RECURSIVE parse_members(_, _, _)

\* One value from b[i0], after white space.
parse_value(b, i0) ==
  LET i == skip_ws(b, i0) IN
  IF i > Len(b) THEN Err
  ELSE CASE b[i] = 110 ->
              IF StartsWith(b, i, Str(<<"n", "u", "l", "l">>))
              THEN [ok |-> TRUE, v |-> Null, i |-> i + 4] ELSE Err
         [] b[i] = 116 ->
              IF StartsWith(b, i, Str(<<"t", "r", "u", "e">>))
              THEN [ok |-> TRUE, v |-> Bool(TRUE), i |-> i + 4] ELSE Err
         [] b[i] = 102 ->
              IF StartsWith(b, i, Str(<<"f", "a", "l", "s", "e">>))
              THEN [ok |-> TRUE, v |-> Bool(FALSE), i |-> i + 5] ELSE Err
         [] b[i] = 45 \/ IsDigit(b[i]) -> parse_number(b, i)
         [] b[i] = 34 -> string_value(parse_str(b, i + 1, <<>>))
         [] b[i] = 91 ->
              LET j == skip_ws(b, i + 1) IN
              IF j <= Len(b) /\ b[j] = 93
              THEN [ok |-> TRUE, v |-> Array(<<>>), i |-> j + 1]
              ELSE parse_elems(b, j, <<>>)
         [] b[i] = 123 ->
              LET j == skip_ws(b, i + 1) IN
              IF j <= Len(b) /\ b[j] = 125
              THEN [ok |-> TRUE, v |-> Object(<<>>), i |-> j + 1]
              ELSE parse_members(b, j, <<>>)
         [] OTHER -> Err

\* After the element r of an array and white space up to b[j]: a comma and
\* the next element, or the closing bracket.
elems_next(b, acc, r, j) ==
  IF j > Len(b) THEN Err
  ELSE IF b[j] = 44 THEN parse_elems(b, j + 1, Append(acc, r.v))
  ELSE IF b[j] = 93
       THEN [ok |-> TRUE, v |-> Array(Append(acc, r.v)), i |-> j + 1]
  ELSE Err

elems_after(b, acc, r) ==
  IF ~r.ok THEN Err ELSE elems_next(b, acc, r, skip_ws(b, r.i))

\* The elements of an array from b[i] up to its closing bracket.
parse_elems(b, i, acc) == elems_after(b, acc, parse_value(b, i))

\* After the member k: r of an object and white space up to b[j]: a comma
\* and the next member, or the closing brace.
members_next(b, acc, k, r, j) ==
  IF j > Len(b) THEN Err
  ELSE IF b[j] = 44
       THEN parse_members(b, skip_ws(b, j + 1), map_insert(acc, k.s, r.v))
  ELSE IF b[j] = 125
       THEN [ok |-> TRUE, v |-> Object(map_insert(acc, k.s, r.v)), i |-> j + 1]
  ELSE Err

members_value(b, acc, k, r) ==
  IF ~r.ok THEN Err ELSE members_next(b, acc, k, r, skip_ws(b, r.i))

\* After the key k and white space up to b[c]: the colon, then the value.
members_colon(b, acc, k, c) ==
  IF c > Len(b) \/ b[c] # 58 THEN Err
  ELSE members_value(b, acc, k, parse_value(b, c + 1))

members_key(b, acc, k) ==
  IF ~k.ok THEN Err ELSE members_colon(b, acc, k, skip_ws(b, k.i))

\* The members of an object from b[i], the quote of a key, up to its
\* closing brace.
parse_members(b, i, acc) ==
  IF i > Len(b) \/ b[i] # 34 THEN Err
  ELSE members_key(b, acc, parse_str(b, i + 1, <<>>))

\* The end of the parse with what follows the value left unread.
end_of_value(b, r) == IF ~r.ok THEN Err ELSE [ok |-> TRUE, v |-> r.v]

\* The value r when only white space follows it.
end_of_text(b, r) ==
  IF ~r.ok THEN Err
  ELSE IF skip_ws(b, r.i) # Len(b) + 1 THEN Err
  ELSE [ok |-> TRUE, v |-> r.v]

\* serde_json::from_slice: one value, white space around it, nothing else.
from_slice(b) == end_of_text(b, parse_value(b, 1))

---------------------------------------------------------------------------
(* crypto/base64.rs: the value codec.                                      *)

None == [t |-> "none"]
Some(v) == [t |-> "some", v |-> v]

\* Base64Encryptor::encrypt: the value's JSON text, base64-encoded, as a
\* string value.
Base64Encryptor_encrypt(value) == String(b64_encode(to_json(value)))

\* The inner if-lets of decrypt: Some(json) when the parse gave Ok(json),
\* and the parse of the bytes when the decoding gave Ok(decoded).
decrypt_parsed(json) == IF json.ok THEN Some(json.v) ELSE None

decrypt_decoded(decoded) ==
  IF decoded.ok THEN decrypt_parsed(from_slice(decoded.bytes)) ELSE None

\* decrypt without the parse: the decoded bytes, as a string value.
Base64Encryptor_decrypt_unparsed(value) ==
  IF value.t = "str" /\ b64_decode(value.s).ok
  THEN Some(String(b64_decode(value.s).bytes))
  ELSE None

\* Base64Encryptor::decrypt: Some(json) when value is a string that decodes
\* and whose bytes parse, None otherwise.
Base64Encryptor_decrypt(value) ==
  IF value.t = "str" THEN decrypt_decoded(b64_decode(value.s)) ELSE None

---------------------------------------------------------------------------
(* handlers/encryption.rs: the depth-1 transform and its two handlers.     *)

\* The closure encoding the values of a nested object one by one.
encrypt_closure_nested(v) ==
  IF v.t = "obj"
  THEN Object([i \in 1..Len(v.m) |->
                 <<v.m[i][1], Base64Encryptor_encrypt(v.m[i][2])>>])
  ELSE Base64Encryptor_encrypt(v)

\* The closure of the encrypt handler.
encrypt_closure(v) == Base64Encryptor_encrypt(v)

\* An unwrap that gives null, not the default, for None.
unwrap_or_null(option, default) == IF option.t = "some" THEN option.v ELSE Null

\* Option::unwrap_or.
unwrap_or(option, default) == IF option.t = "some" THEN option.v ELSE default

\* The closure of the decrypt handler: decrypt(v).unwrap_or(v.clone()).
decrypt_closure(v) == unwrap_or(Base64Encryptor_decrypt(v), v)

\* The call method(value), for the closure the handler passes.
Method(method, v) ==
  IF method = "encrypt" THEN encrypt_closure(v) ELSE decrypt_closure(v)

\* The loop with the method called on the payload, not on the entry's value.
RECURSIVE apply_entries_on_payload(_, _, _, _)
apply_entries_on_payload(map, method, i, out) ==
  IF i > Len(map) THEN out
  ELSE apply_entries_on_payload(map, method, i + 1,
         map_insert(out, map[i][1], Method(method, Object(map))))

\* The loop of apply_method_to_values over the entries from the i-th on.
RECURSIVE apply_entries(_, _, _, _)
apply_entries(map, method, i, out) ==
  IF i > Len(map) THEN out
  ELSE apply_entries(map, method, i + 1,
         map_insert(out, map[i][1], Method(method, map[i][2])))

\* apply_method_to_values: the method on each top-level value of an
\* object, on the payload itself when it is no object.
apply_method_to_values(values, method) ==
  IF values.t = "obj"
  THEN Object(apply_entries(values.m, method, 1, <<>>))
  ELSE Method(method, values)

\* POST /encrypt and POST /decrypt.
handlers_encrypt(payload) == apply_method_to_values(payload, "encrypt")
handlers_decrypt(payload) == apply_method_to_values(payload, "decrypt")

---------------------------------------------------------------------------
(* crypto/hmac.rs: the canonical signer.                                   *)

\* The output size of HMAC-SHA256, in bytes.
DigestLen == 32

\* Vec::sort on strings: ascending byte-lexicographic order, by insertion.
RECURSIVE SortInsert(_, _)
SortInsert(x, sorted) ==
  IF sorted = <<>> THEN <<x>>
  ELSE IF StrLess(x, sorted[1]) THEN <<x>> \o sorted
  ELSE <<sorted[1]>> \o SortInsert(x, Tail(sorted))

RECURSIVE Sort(_)
Sort(ss) ==
  IF ss = <<>> THEN <<>> ELSE SortInsert(ss[Len(ss)], Sort(SubSeq(ss, 1, Len(ss) - 1)))

\* format!("{k}={v};"): the key as it is, the value's JSON text.
entry_string(k, v) == k \o Str(<<"=">>) \o to_json(v) \o Str(<<";">>)

\* map_to_string without the sort: the entries in iteration order.
map_to_string_unsorted(map) ==
  Concat([i \in 1..Len(map) |-> entry_string(map[i][1], map[i][2])])

\* HMacSigner::map_to_string: one string per entry, sorted, joined.
map_to_string(map) ==
  LET to_sign == [i \in 1..Len(map) |-> entry_string(map[i][1], map[i][2])]
  IN Concat(Sort(to_sign))

\* Hmac::<Sha256>: the tag of a message under a key, DigestLen bytes.  The
\* keyed hash is taken to be collision-free: under one key, messages of
\* fewer than DigestLen bytes, none of them zero, get different tags (the
\* i-th byte of the tag is the i-th byte of the message plus a byte of the
\* key), and so do different keys of one length on one message.
hmac_sha256(k, message) ==
  LET kb(i) == IF k = <<>> THEN 0 ELSE k[((i - 1) % Len(k)) + 1]
      RECURSIVE fold(_)
      fold(j) == IF j > Len(message) THEN 0 ELSE message[j] + fold(j + DigestLen)
  IN [i \in 1..DigestLen |-> (fold(i) + 7 * kb(i) + i) % 256]

\* format!("{:x}", bytes): two lower-case hexadecimal digits per byte.
lower_hex(bytes) == Concat([i \in 1..Len(bytes) |-> Hex2(bytes[i])])

\* HMacSigner::sign.
HMacSigner_sign(k, map) ==
  LET concatenated == map_to_string(map)
  IN String(lower_hex(hmac_sha256(k, concatenated)))

\* str::is_char_boundary at the byte offset idx (counted from 0).
is_char_boundary(s, idx) ==
  IF idx = 0 \/ idx = Len(s) THEN TRUE
  ELSE IF idx > Len(s) THEN FALSE
  ELSE ~(s[idx + 1] >= 128 /\ s[idx + 1] <= 191)

\* u8::from_str_radix(src, 16): an optional plus sign, then one or more
\* hexadecimal digits in either case; -1 for an Err.  src holds at most
\* two bytes here, so the value fits a byte.
from_str_radix(src) ==
  LET digits == IF src # <<>> /\ src[1] = 43 THEN Tail(src) ELSE src IN
  IF digits = <<>> THEN -1
  ELSE IF \E i \in 1..Len(digits) : HexVal(digits[i]) < 0 THEN -1
  ELSE IF Len(digits) = 1 THEN HexVal(digits[1])
  ELSE HexVal(digits[1]) * 16 + HexVal(digits[2])

Panic == [t |-> "panic"]

\* The hex decoding with the slice signature[i..i + 1]: one digit a byte.
RECURSIVE decode_hex_one_digit(_, _, _)
decode_hex_one_digit(signature, i, acc) ==
  IF i >= Len(signature) THEN [t |-> "ok", bytes |-> acc]
  ELSE IF ~(is_char_boundary(signature, i) /\ is_char_boundary(signature, i + 1))
  THEN Panic
  ELSE LET b == from_str_radix(SubSeq(signature, i + 1, i + 1)) IN
       IF b < 0 THEN [t |-> "err"]
       ELSE decode_hex_one_digit(signature, i + 2, Append(acc, b))

\* The hex decoding of verify, from the byte offset i (counted from 0) on:
\* the slice signature[i..i + 2] panics when it ends after the string or
\* cuts a character; the first Err ends the collect.
RECURSIVE decode_hex(_, _, _)
decode_hex(signature, i, acc) ==
  IF i >= Len(signature) THEN [t |-> "ok", bytes |-> acc]
  ELSE IF ~(is_char_boundary(signature, i) /\ is_char_boundary(signature, i + 2))
  THEN Panic
  ELSE LET b == from_str_radix(SubSeq(signature, i + 1, i + 2)) IN
       IF b < 0 THEN [t |-> "err"]
       ELSE decode_hex(signature, i + 2, Append(acc, b))

\* Mac::verify_slice: the tag must have the digest's length and its bytes.
verify_slice(mac, bytes) == Len(bytes) = Len(mac) /\ bytes = mac

\* verify with a comparison that starts at the second byte of the tag.
HMacSigner_verify_from_second(k, map, signature) ==
  LET mac == hmac_sha256(k, map_to_string(map))
      sig_bytes == decode_hex(signature, 0, <<>>)
  IN CASE sig_bytes.t = "panic" -> Panic
       [] sig_bytes.t = "ok" ->
            Bool(/\ Len(sig_bytes.bytes) = Len(mac)
                 /\ Tail(sig_bytes.bytes) = Tail(mac))
       [] sig_bytes.t = "err" -> Bool(FALSE)

\* HMacSigner::verify: Bool(b) when it returns b, Panic when it panics.
HMacSigner_verify(k, map, signature) ==
  LET concatenated == map_to_string(map)
      mac == hmac_sha256(k, concatenated)
      sig_bytes == decode_hex(signature, 0, <<>>)
  IN CASE sig_bytes.t = "panic" -> Panic
       [] sig_bytes.t = "ok" -> Bool(verify_slice(mac, sig_bytes.bytes))
       [] sig_bytes.t = "err" -> Bool(FALSE)

---------------------------------------------------------------------------
(* handlers/signing.rs: the two handlers of the signer.  A handler returns *)
(* a status code, with a body for 200; a panic of the signer unwinds       *)
(* through the handler, which then returns nothing.                        *)

OK == 200
NO_CONTENT == 204
BAD_REQUEST == 400

\* A response: a status code, and the JSON body of a 200.
StatusCode(code) == [t |-> "status", code |-> code]
Json(body) == [t |-> "status", code |-> OK, body |-> body]

\* Value::get with a string index: None on a value that is no object.
Value_get(v, k) ==
  IF v.t = "obj" /\ HasKey(v.m, k) THEN Some(Get(v.m, k)) ELSE None

\* Value::as_str, and Option::and_then with it.
as_str(v) == IF v.t = "str" THEN Some(v.s) ELSE None
and_then_as_str(option) == IF option.t = "some" THEN as_str(option.v) ELSE None

\* The keys "signature" and "data" of the bodies.
SignatureKey == Str(<<"s", "i", "g", "n", "a", "t", "u", "r", "e">>)
DataKey == Str(<<"d", "a", "t", "a">>)

\* POST /sign: 200 with {"signature": ..} for an object, 400 otherwise.
handlers_sign(k, payload) ==
  IF payload.t = "obj"
  THEN Json(Object(<< <<SignatureKey, HMacSigner_sign(k, payload.m)>> >>))
  ELSE StatusCode(BAD_REQUEST)

\* The arm of verify's match taken with Some(sig) and Some(Object(map)).
verify_arm(verified) ==
  IF verified = Panic THEN Panic
  ELSE IF verified.b THEN StatusCode(NO_CONTENT) ELSE StatusCode(BAD_REQUEST)

\* The match of verify on (signature, data).
verify_match(k, signature, data) ==
  IF signature.t = "some" /\ data.t = "some" /\ data.v.t = "obj"
  THEN verify_arm(HMacSigner_verify(k, data.v.m, signature.v))
  ELSE StatusCode(BAD_REQUEST)

\* POST /verify.
handlers_verify(k, payload) ==
  verify_match(k, and_then_as_str(Value_get(payload, SignatureKey)),
               Value_get(payload, DataKey))

---------------------------------------------------------------------------
(* The inputs of the model.                                                *)

\* Values nest up to MaxDepth levels; objects hold up to MaxPairs entries;
\* a signature is altered at one of its first MaxTamperPos characters, or
\* made longer by up to MaxExtra characters.
MaxDepth == 2
MaxPairs == 2
MaxTamperPos == 4
MaxExtra == 2

\* The HMAC_SECRET of the process: the keys of the unit tests.
SecretKeys ==
  { Str(<<"k", "e", "y", "-", "a">>), Str(<<"k", "e", "y", "-", "b">>) }

\* "MQ==" is the base64 text of the JSON text 1, "MTIz" that of 123, and
\* "IDE=" that of the text " 1", which no encrypt call returns.
B64_1 == Str(<<"M", "Q", "=", "=">>)
B64_123 == Str(<<"M", "T", "I", "z">>)
B64_ws1 == Str(<<"I", "D", "E", "=">>)

Atoms ==
  { Null, Bool(TRUE), Bool(FALSE), Number(0), Number(30), Number(-7),
    String(<<>>), String(Str(<<"a", "DQUOTE", "BACKSLASH">>)),
    String(<<195, 169, 10>>), String(B64_1) }

\* The values that hold v one level down.
Nest(v) ==
  { Array(<<v>>),
    Array(<<Number(1), v>>),
    Object(<< <<Str(<<"k">>), v>>, <<Str(<<"b">>), Null>> >>) }

RECURSIVE ValuesOfDepth(_)
ValuesOfDepth(d) ==
  IF d = 0 THEN Atoms \cup {Array(<<>>), Object(<<>>)}
  ELSE LET S == ValuesOfDepth(d - 1) IN S \cup UNION {Nest(v) : v \in S}

Values == ValuesOfDepth(MaxDepth)

\* The entries objects are built of.  The key "a=1;b" holds the separators
\* of the canonical message; two entries share the key "b".
Fields ==
  { <<Str(<<"a">>), Number(1)>>,
    <<Str(<<"b">>), Number(2)>>,
    <<Str(<<"a", "=", "1", ";", "b">>), Number(2)>>,
    <<Str(<<"b">>), String(B64_123)>>,
    <<Str(<<"a", "!">>), String(Str(<<"E", "v", "e">>))>>,
    <<Str(<<"n">>), Object(<< <<Str(<<"x">>), Array(<<Null, Bool(TRUE)>>)>> >>)>> }

DistinctKeys(m) ==
  \A i, j \in 1..Len(m) : m[i][1] = m[j][1] => i = j

\* The entry sequences of at most n entries of F, with different keys, in
\* every order.
EntrySeqs(F, n) ==
  UNION { {m \in [1..len -> F] : DistinctKeys(m)} : len \in 0..n }

Objects == {Object(m) : m \in EntrySeqs(Fields, MaxPairs)}

\* The payloads of POST /encrypt: objects and bare values.
Payloads == Objects \cup {v \in ValuesOfDepth(1) : v.t # "obj"}

\* Values a client sends to decrypt that no encrypt call gave it.
PlainValues ==
  { String(Str(<<"1", "9", "9", "8", "-", "1", "1", "-", "1", "9">>)),
    String(Str(<<"A", "l", "i", "c", "e">>)), Number(99), Bool(TRUE), Null,
    String(Str(<<"1", "2", "3", "4">>)), String(Str(<<"M", "R", "=", "=">>)),
    String(B64_123), String(B64_ws1),
    Array(<<String(B64_1)>>),
    Object(<< <<Str(<<"e">>), String(B64_1)>> >>) }

PlainFields ==
  {<<Str(<<"p">>), v>> : v \in PlainValues} \cup {<<Str(<<"q">>), Number(99)>>}

PlainPayloads ==
  {Object(m) : m \in EntrySeqs(PlainFields, MaxPairs)} \cup PlainValues

\* Texts that are no JSON text: an unfinished value, a second value or other
\* bytes after the value, a number with a leading zero or a sign alone, a
\* string that is not closed or holds a byte that is no UTF-8, nothing.
NotJsonTexts ==
  { <<>>,
    Str(<<"1", "x">>), Str(<<"1", " ", "2">>), Str(<<"{">>),
    Str(<<"[", "1", ",", "]">>), Str(<<"n", "u", "l">>),
    Str(<<"t", "r", "u", "e", "!">>), Str(<<"0", "1">>), Str(<<"-">>),
    Str(<<"+", "1">>), Str(<<"DQUOTE", "a">>), Str(<<"'", "a", "'">>),
    <<34, 255, 34>>,
    Str(<<"{", "DQUOTE", "a", "DQUOTE", "}">>),
    Str(<<"{", "DQUOTE", "a", "DQUOTE", ":", "1", ",", "}">>),
    Str(<<"{", "a", ":", "1", "}">>),
    Str(<<"[", "1", "]", "]">>) }

\* JSON texts with the value each of them denotes: white space around the
\* value and between its tokens, an escape, a negative number, a key given
\* twice (the later value stays).
JsonCases ==
  { <<Str(<<" ", "1", " ">>), Number(1)>>,
    <<Str(<<"1">>) \o <<10>>, Number(1)>>,
    <<Str(<<"-", "5">>), Number(-5)>>,
    <<Str(<<"t", "r", "u", "e">>), Bool(TRUE)>>,
    <<Str(<<"n", "u", "l", "l">>), Null>>,
    <<Str(<<"[", "]">>), Array(<<>>)>>,
    <<Str(<<"{", "}">>), Object(<<>>)>>,
    <<Str(<<"[", " ", "1", " ", ",", " ", "2", " ", "]">>),
      Array(<<Number(1), Number(2)>>)>>,
    <<Str(<<"{", " ", "DQUOTE", "a", "DQUOTE", " ", ":", " ", "n", "u", "l",
            "l", " ", "}">>),
      Object(<< <<Str(<<"a">>), Null>> >>)>>,
    <<Str(<<"DQUOTE", "BACKSLASH", "u", "0", "0", "4", "1", "DQUOTE">>),
      String(Str(<<"A">>))>>,
    <<Str(<<"{", "DQUOTE", "a", "DQUOTE", ":", "1", ",", "DQUOTE", "a",
            "DQUOTE", ":", "2", "}">>),
      Object(<< <<Str(<<"a">>), Number(2)>> >>)>> }

\* Strings that are no standard base64: a length that is no multiple of
\* four, padding that is missing, too long or not at the end, a character
\* outside the alphabet, bits set that no byte uses.
NotBase64 ==
  { Str(<<"M", "Q", "=">>), Str(<<"M", "Q">>), Str(<<"M", "=", "=", "=">>),
    Str(<<"=", "=", "=", "=">>), Str(<<"=", "M", "Q", "=">>),
    Str(<<"M", "Q", "=", "=", "M", "Q", "=", "=">>),
    Str(<<"M", "T", "I", "z">>) \o <<10>>,
    Str(<<"M", "T", "I", "z", "M", "Q", "=", "=">>) \o <<10>>,
    Str(<<" ", "M", "T", "I">>), Str(<<"M", "T", "I", "-">>),
    Str(<<"M", "T", "I", "_">>), Str(<<"M", "R", "=", "=">>),
    Str(<<"M", "T", "J", "=">>), Str(<<"A", "l", "i", "c", "e">>),
    Str(<<"h", "e", "l", "l", "o", " ", "w", "o", "r", "l", "d", "!">>) }

\* The strings given to Base64Encryptor.decrypt that no encrypt call made.
CodecTexts ==
  {b64_encode(t) : t \in NotJsonTexts} \cup
  {b64_encode(c[1]) : c \in JsonCases} \cup NotBase64

\* The bodies a client sends to POST /verify with a signature sig and an
\* object o: the two fields in either order or with a third one, one of them
\* missing, the signature not a string, the data not an object, and bodies
\* that are no object.
VerifyBodies(sig, o) ==
  LET s == <<SignatureKey, String(sig)>>
      d == <<DataKey, o>>
  IN { Object(<<s, d>>), Object(<<d, s>>),
       Object(<<s, d, <<Str(<<"x">>), Null>> >>),
       Object(<<d>>), Object(<<s>>), Object(<<>>),
       Object(<< <<DataKey, o>>, <<Str(<<"s", "i", "g">>), String(sig)>> >>),
       Object(<< <<SignatureKey, Number(1)>>, d >>),
       Object(<< <<SignatureKey, Null>>, d >>),
       Object(<< <<SignatureKey, Array(<<String(sig)>>)>>, d >>),
       Object(<< s, <<DataKey, Array(<<o>>)>> >>),
       Object(<< s, <<DataKey, String(to_json(o))>> >>),
       Object(<< s, <<DataKey, Null>> >>),
       Object(<< s, <<DataKey, Number(42)>> >>),
       Array(<<String(sig), o>>), String(sig), Null, o }

\* The proper prefixes of a signature, and the signature with up to
\* MaxExtra hexadecimal digits appended.
Resizings(s) ==
  {SubSeq(s, 1, n) : n \in 0..(Len(s) - 1)} \cup
  {s \o e : e \in UNION {[1..n -> {48, 97, 70}] : n \in 1..MaxExtra}}

\* The 22 hexadecimal digits, in both cases.
HexChars == {c \in 48..102 : HexVal(c) >= 0}

\* s with its p-th character replaced by c.
ReplaceAt(s, p, c) == [i \in 1..Len(s) |-> IF i = p THEN c ELSE s[i]]

\* The strings that differ from s in exactly one of its first MaxTamperPos
\* characters, a hexadecimal digit replaced by another one.
Tampered(s) ==
  { ReplaceAt(s, p, c) :
      p \in {q \in 1..MaxTamperPos : q <= Len(s)}, c \in HexChars } \ {s}

\* n copies of the string s.
Repeat(s, n) == Concat([i \in 1..n |-> s])

\* The objects sent with a signature the client holds, besides the signed
\* one, and the candidates sent in its place.
OtherObjects == {Object(<<>>), Object(<< <<Str(<<"a">>), Number(1)>> >>)}
OtherCandidates ==
  { <<>>, Str(<<"a">>), Str(<<"z", "z">>), Repeat(Str(<<"a", "a">>), DigestLen) }

\* Candidates that are no signature of the signer: the empty string, odd
\* lengths, bytes that are no hexadecimal digit, characters of several
\* bytes, and well-formed hexadecimal text of a wrong value or length.
Malformed ==
  { <<>>,
    Str(<<"a">>), Str(<<"a", "b", "c">>), Str(<<"a", "a", "g">>),
    Str(<<"z", "z">>), Str(<<"g", "a", "b">>),
    Str(<<"n", "o", "t", "-", "v", "a", "l", "i", "d", "-", "h", "e", "x", "!", "!">>),
    <<195, 169>>, <<97, 195, 169>>, <<97, 97, 195, 169>>,
    Repeat(Str(<<"a", "a">>), DigestLen),
    Repeat(Str(<<"+", "a">>), DigestLen),
    Repeat(Str(<<"a", "a">>), DigestLen + 1),
    Repeat(Str(<<"a">>), 2 * DigestLen - 1) }

---------------------------------------------------------------------------
(* The state: the key of the process-wide SIGNER, the last call (its name, *)
(* its payload, the candidate signature of a verify call, what it          *)
(* returned), and the response of an earlier call that the client holds.   *)
(* A run is one exchange of a client with the service, as in the tests: at *)
(* "start" it makes a first call, "holding" the response it makes a call   *)
(* that uses it, and is "done".                                            *)

NoHeld == [kind |-> "none"]
NoCand == <<>>

Init ==
  /\ key \in SecretKeys
  /\ pc = "start"
  /\ call = "none"
  /\ arg = Null
  /\ cand = NoCand
  /\ ret = Null
  /\ held = NoHeld

\* Base64Encryptor.encrypt(v); the client keeps the result.
CodecEncrypt ==
  \E v \in Values :
    /\ pc = "start"
    /\ pc' = "holding"
    /\ call' = "Base64Encryptor.encrypt"
    /\ arg' = v
    /\ cand' = NoCand
    /\ ret' = Base64Encryptor_encrypt(v)
    /\ held' = [kind |-> "encoded", plain |-> v, out |-> ret']
    /\ UNCHANGED key

\* Base64Encryptor.decrypt of the encoded value the client holds.
CodecDecryptHeld ==
  /\ held.kind = "encoded"
  /\ pc = "holding"
  /\ pc' = "done"
  /\ call' = "Base64Encryptor.decrypt"
  /\ arg' = held.out
  /\ cand' = NoCand
  /\ ret' = Base64Encryptor_decrypt(held.out)
  /\ UNCHANGED <<key, held>>

\* Base64Encryptor.decrypt of a value no encrypt call returned.
CodecDecryptPlain ==
  \E v \in PlainValues :
    /\ pc = "start"
    /\ pc' = "done"
    /\ call' = "Base64Encryptor.decrypt"
    /\ arg' = v
    /\ cand' = NoCand
    /\ ret' = Base64Encryptor_decrypt(v)
    /\ held' = NoHeld
    /\ UNCHANGED key

\* POST /encrypt; the client keeps the response.
Encrypt ==
  \E p \in Payloads :
    /\ pc = "start"
    /\ pc' = "holding"
    /\ call' = "encrypt"
    /\ arg' = p
    /\ cand' = NoCand
    /\ ret' = handlers_encrypt(p)
    /\ held' = [kind |-> "encrypted", plain |-> p, out |-> ret']
    /\ UNCHANGED key

\* POST /decrypt of the response of /encrypt.
DecryptHeld ==
  /\ held.kind = "encrypted"
  /\ pc = "holding"
  /\ pc' = "done"
  /\ call' = "decrypt"
  /\ arg' = held.out
  /\ cand' = NoCand
  /\ ret' = handlers_decrypt(held.out)
  /\ UNCHANGED <<key, held>>

\* POST /decrypt of the response of /encrypt with one more field, a plain
\* one, added to it.
DecryptMixed ==
  /\ held.kind = "encrypted"
  /\ pc = "holding"
  /\ pc' = "done"
  /\ held.out.t = "obj"
  /\ \E f \in PlainFields :
       /\ ~HasKey(held.out.m, f[1])
       /\ call' = "decrypt"
       /\ arg' = Object(Append(held.out.m, f))
       /\ cand' = NoCand
       /\ ret' = handlers_decrypt(Object(Append(held.out.m, f)))
       /\ UNCHANGED <<key, held>>

\* POST /decrypt of a payload in which nothing was encrypted.
DecryptPlain ==
  \E p \in PlainPayloads :
    /\ pc = "start"
    /\ pc' = "done"
    /\ call' = "decrypt"
    /\ arg' = p
    /\ cand' = NoCand
    /\ ret' = handlers_decrypt(p)
    /\ held' = NoHeld
    /\ UNCHANGED key

\* SIGNER.sign(map); the client keeps the object and its signature.
Sign ==
  \E o \in Objects :
    /\ pc = "start"
    /\ pc' = "holding"
    /\ call' = "sign"
    /\ arg' = o
    /\ cand' = NoCand
    /\ ret' = HMacSigner_sign(key, o.m)
    /\ held' = [kind |-> "signed", obj |-> o, sig |-> ret'.s]
    /\ UNCHANGED key

\* SIGNER.sign(map) once more, of any object, by a client that keeps the
\* signature it holds.
SignAgain ==
  /\ held.kind = "signed"
  /\ pc = "holding"
  /\ pc' = "done"
  /\ \E o \in Objects :
       /\ call' = "sign"
       /\ arg' = o
       /\ cand' = NoCand
       /\ ret' = HMacSigner_sign(key, o.m)
       /\ UNCHANGED <<key, held>>

\* SIGNER.verify(map, signature) with the signature the client holds and
\* any object: the signed one, a reordering of it, another one.
VerifyHeld ==
  /\ held.kind = "signed"
  /\ pc = "holding"
  /\ pc' = "done"
  /\ \E o \in Objects :
       /\ call' = "verify"
       /\ arg' = o
       /\ cand' = held.sig
       /\ ret' = HMacSigner_verify(key, o.m, held.sig)
       /\ UNCHANGED <<key, held>>

\* SIGNER.verify of the signed object with the signature altered in one
\* character.
VerifyTampered ==
  /\ held.kind = "signed"
  /\ pc = "holding"
  /\ pc' = "done"
  /\ \E c \in Tampered(held.sig) :
       /\ call' = "verify"
       /\ arg' = held.obj
       /\ cand' = c
       /\ ret' = HMacSigner_verify(key, held.obj.m, c)
       /\ UNCHANGED <<key, held>>

\* SIGNER.verify with a candidate that is no signature.
VerifyMalformed ==
  \E o \in Objects, c \in Malformed :
    /\ pc = "start"
    /\ pc' = "done"
    /\ call' = "verify"
    /\ arg' = o
    /\ cand' = c
    /\ ret' = HMacSigner_verify(key, o.m, c)
    /\ held' = NoHeld
    /\ UNCHANGED key

\* Base64Encryptor.decrypt of a string written by hand: base64 of a text
\* that is JSON or is not, or no base64 at all.
CodecDecryptText ==
  \E s \in CodecTexts :
    /\ pc = "start"
    /\ pc' = "done"
    /\ call' = "Base64Encryptor.decrypt"
    /\ arg' = String(s)
    /\ cand' = NoCand
    /\ ret' = Base64Encryptor_decrypt(String(s))
    /\ held' = NoHeld
    /\ UNCHANGED key

\* POST /verify with a body made of the signature the client holds, or of
\* another candidate, and of the signed object or another one.
PostVerify ==
  /\ held.kind = "signed"
  /\ pc = "holding"
  /\ pc' = "done"
  /\ \E o \in {held.obj} \cup OtherObjects,
        s \in {held.sig} \cup OtherCandidates :
       \E body \in VerifyBodies(s, o) :
         /\ call' = "POST /verify"
         /\ arg' = body
         /\ cand' = NoCand
         /\ ret' = handlers_verify(key, body)
         /\ UNCHANGED <<key, held>>

\* signer.map_to_string(&map), as the unit tests call it.
MapToString ==
  \E o \in Objects :
    /\ pc = "start"
    /\ pc' = "done"
    /\ call' = "map_to_string"
    /\ arg' = o
    /\ cand' = NoCand
    /\ ret' = String(map_to_string(o.m))
    /\ held' = NoHeld
    /\ UNCHANGED key

\* SIGNER.verify of the signed object with the signature cut short or
\* made longer.
VerifyResized ==
  /\ held.kind = "signed"
  /\ pc = "holding"
  /\ pc' = "done"
  /\ \E c \in Resizings(held.sig) :
       /\ call' = "verify"
       /\ arg' = held.obj
       /\ cand' = c
       /\ ret' = HMacSigner_verify(key, held.obj.m, c)
       /\ UNCHANGED <<key, held>>

Next ==
  \/ CodecEncrypt
  \/ CodecDecryptHeld
  \/ CodecDecryptPlain
  \/ CodecDecryptText
  \/ Encrypt
  \/ DecryptHeld
  \/ DecryptMixed
  \/ DecryptPlain
  \/ MapToString
  \/ Sign
  \/ SignAgain
  \/ VerifyHeld
  \/ VerifyTampered
  \/ VerifyResized
  \/ VerifyMalformed
  \/ PostVerify

Spec == Init /\ [][Next]_vars

---------------------------------------------------------------------------
(* The service under concurrent requests.  Each of MaxThreads tasks takes  *)
(* a request, runs its handler and responds, again and again.  The         *)
(* handlers share one thing, the static SIGNER, a LazyLock: the first task *)
(* to use it runs its closure, which reads HMAC_SECRET (set, here), while  *)
(* the tasks that come to it meanwhile wait until it is complete.  In this *)
(* specification key is the cell of SIGNER, held the environment of the    *)
(* process, and pc, call, arg, cand and ret hold one value per task.       *)

MaxThreads == 2

Threads == 1..MaxThreads

\* HMacSigner::new: the signer owning the bytes of the key.
HMacSigner_new(k) == [i \in 1..Len(k) |-> k[i]]

\* The cell of a LazyLock: not yet initialised, its closure running in the
\* task owner, or holding a value.
Incomplete == [once |-> "incomplete", owner |-> 0, value |-> <<>>]
Running(t) == [once |-> "running", owner |-> t, value |-> <<>>]
Complete(v) == [once |-> "complete", owner |-> 0, value |-> v]

\* A task may use the value of a cell whose closure has not returned.
may_deref_running(cell) == cell.once # "incomplete"

\* A task may use the value of a cell once it is complete.
may_deref(cell) == cell.once = "complete"

\* The object the concurrent requests are about.
ConcObject == Object(<< <<Str(<<"a">>), Number(1)>> >>)

\* The requests of a process whose secret is k: <<route, body>>.
Requests(k) ==
  { <<"encrypt", ConcObject>>,
    <<"decrypt", handlers_encrypt(ConcObject)>>,
    <<"sign", ConcObject>>,
    <<"sign", Number(1)>>,
    <<"verify", Object(<< <<SignatureKey, HMacSigner_sign(k, ConcObject.m)>>,
                          <<DataKey, ConcObject>> >>)>>,
    <<"verify", Object(<< <<SignatureKey,
                            String(Repeat(Str(<<"a", "a">>), DigestLen))>>,
                          <<DataKey, ConcObject>> >>)>>,
    <<"verify", Object(<< <<SignatureKey, String(Str(<<"a">>))>>,
                          <<DataKey, ConcObject>> >>)>>,
    <<"verify", Object(<< <<DataKey, ConcObject>> >>)>> }

\* The handler of the route reaches an expression that uses SIGNER.
UsesSigner(route, body) ==
  \/ route = "sign" /\ body.t = "obj"
  \/ /\ route = "verify"
     /\ and_then_as_str(Value_get(body, SignatureKey)).t = "some"
     /\ Value_get(body, DataKey).t = "some"
     /\ Value_get(body, DataKey).v.t = "obj"

\* The handler of the route on the body, with the signer it finds.
route_handler(signer, route, body) ==
  CASE route = "encrypt" -> handlers_encrypt(body)
    [] route = "decrypt" -> handlers_decrypt(body)
    [] route = "sign" -> handlers_sign(signer, body)
    [] route = "verify" -> handlers_verify(signer, body)

ConcInit ==
  /\ key = Incomplete
  /\ held \in {[kind |-> "env", HMAC_SECRET |-> k] : k \in SecretKeys}
  /\ pc = [t \in Threads |-> "idle"]
  /\ call = [t \in Threads |-> "none"]
  /\ arg = [t \in Threads |-> Null]
  /\ cand = [t \in Threads |-> NoCand]
  /\ ret = [t \in Threads |-> Null]

\* A task takes a request.
Receive(t) ==
  /\ pc[t] \in {"idle", "done"}
  /\ \E r \in Requests(held.HMAC_SECRET) :
       /\ call' = [call EXCEPT ![t] = r[1]]
       /\ arg' = [arg EXCEPT ![t] = r[2]]
  /\ ret' = [ret EXCEPT ![t] = Null]
  /\ pc' = [pc EXCEPT ![t] = "received"]
  /\ UNCHANGED <<key, held, cand>>

\* The task is the first to use SIGNER: it starts the closure.
ForceBegin(t) ==
  /\ pc[t] = "received"
  /\ UsesSigner(call[t], arg[t])
  /\ key.once = "incomplete"
  /\ key' = Running(t)
  /\ pc' = [pc EXCEPT ![t] = "init"]
  /\ UNCHANGED <<call, arg, cand, ret, held>>

\* The closure returns HMacSigner::new(key.into_bytes()).
ForceEnd(t) ==
  /\ pc[t] = "init"
  /\ key = Running(t)
  /\ key' = Complete(HMacSigner_new(held.HMAC_SECRET))
  /\ pc' = [pc EXCEPT ![t] = "received"]
  /\ UNCHANGED <<call, arg, cand, ret, held>>

\* The handler runs, with SIGNER if it uses it, and the task responds.
Respond(t) ==
  /\ pc[t] = "received"
  /\ UsesSigner(call[t], arg[t]) => may_deref(key)
  /\ ret' = [ret EXCEPT ![t] = route_handler(key.value, call[t], arg[t])]
  /\ pc' = [pc EXCEPT ![t] = "done"]
  /\ UNCHANGED <<key, call, arg, cand, held>>

ConcNext ==
  \E t \in Threads :
    \/ Receive(t)
    \/ ForceBegin(t)
    \/ ForceEnd(t)
    \/ Respond(t)

ConcSpec == ConcInit /\ [][ConcNext]_vars

---------------------------------------------------------------------------
(* The claims.                                                             *)

\* The entries of two objects are the same ones, in any order.
SamePairs(m1, m2) ==
  /\ Len(m1) = Len(m2)
  /\ \A i \in 1..Len(m1) : \E j \in 1..Len(m2) : m1[i] = m2[j]

\* The top-level keys of an object with the rendered text of their values.
Rendered(m) == {<<m[i][1], to_json(m[i][2])>> : i \in 1..Len(m)}

\* Two objects differ in a top-level key or in the rendered value of one.
Differs(m1, m2) == Rendered(m1) # Rendered(m2)

C2_TamperedObjectRejected ==
  /\ call = "verify"
  /\ held.kind = "signed"
  /\ cand = held.sig
  /\ Differs(arg.m, held.obj.m)
  => ret = Bool(FALSE)

\* C3: two objects that differ in a top-level key or in the rendered value
\* of one have different canonical messages and different signatures under
\* one key.
C3_SignatureSensitivity ==
  /\ call = "sign"
  /\ held.kind = "signed"
  /\ Differs(arg.m, held.obj.m)
  => /\ map_to_string(arg.m) # map_to_string(held.obj.m)
     /\ ret # String(held.sig)

\* C4: verify returns a boolean for every candidate string, and false for
\* every candidate of odd length; it never panics.
C4_VerifyNeverAborts ==
  call = "verify" =>
    /\ ret.t = "bool"
    /\ Len(cand) % 2 = 1 => ret = Bool(FALSE)

\* C5: verify returns false for every candidate that holds a character
\* that is no hexadecimal digit.
C5_NonHexRejected ==
  /\ call = "verify"
  /\ \E i \in 1..Len(cand) : HexVal(cand[i]) < 0
  => ret = Bool(FALSE)

\* The positions at which two strings of one length differ.
DiffPositions(s, c) == {i \in 1..Len(s) : s[i] # c[i]}

\* c is s with exactly one character replaced by another hexadecimal digit.
OneCharReplaced(s, c) ==
  /\ Len(s) = Len(c)
  /\ Cardinality(DiffPositions(s, c)) = 1
  /\ \A i \in DiffPositions(s, c) : c[i] \in HexChars

\* C6, as claimed: verify of the signed object with its signature changed
\* in exactly one character, to any other hexadecimal digit, returns false.
C6_AnyDigitReplaced ==
  /\ call = "verify"
  /\ held.kind = "signed"
  /\ arg = held.obj
  /\ OneCharReplaced(held.sig, cand)
  => ret = Bool(FALSE)

\* C6, amended: verify of the signed object with its signature changed in
\* exactly one character, to a hexadecimal digit of another value (not the
\* same digit in the other letter case), returns false.
C6_DigitValueReplaced ==
  /\ call = "verify"
  /\ held.kind = "signed"
  /\ arg = held.obj
  /\ OneCharReplaced(held.sig, cand)
  /\ \A i \in DiffPositions(held.sig, cand) : HexVal(cand[i]) # HexVal(held.sig[i])
  => ret = Bool(FALSE)

\* A signature with one digit replaced by a digit of another value was
\* rejected.
C6_Witness ==
  /\ call = "verify"
  /\ held.kind = "signed"
  /\ arg = held.obj
  /\ OneCharReplaced(held.sig, cand)
  /\ \E i \in DiffPositions(held.sig, cand) :
       /\ HexVal(cand[i]) # HexVal(held.sig[i])
       /\ cand[i] \in 65..70
  /\ ret = Bool(FALSE)

\* C7: verify of an object with the signature sign returned for it is
\* true, for the empty object and objects with nested values too, and in
\* whatever order the object's entries are presented.
C7_SignVerifyRoundTrip ==
  /\ call = "verify"
  /\ held.kind = "signed"
  /\ cand = held.sig
  /\ SamePairs(arg.m, held.obj.m)
  => ret = Bool(TRUE)

\* An object with a nested value was verified with its entries in the
\* other order.
C7_Witness ==
  /\ call = "verify"
  /\ held.kind = "signed"
  /\ cand = held.sig
  /\ Len(arg.m) = 2
  /\ Len(held.obj.m) = 2
  /\ arg.m[1] = held.obj.m[2]
  /\ arg.m[2] = held.obj.m[1]
  /\ arg.m[1][2].t = "obj"
  /\ ret = Bool(TRUE)

\* C8: under one key sign returns the same signature for two objects with
\* the same entries in any order, and again for the same object.
C8_OrderIndependence ==
  /\ call = "sign"
  /\ held.kind = "signed"
  /\ SamePairs(arg.m, held.obj.m)
  => ret = String(held.sig)

\* A second sign call, of the entries of the first in the other order,
\* returned the signature of the first.
C8_Witness ==
  /\ call = "sign"
  /\ pc = "done"
  /\ held.kind = "signed"
  /\ Len(arg.m) = 2
  /\ Len(held.obj.m) = 2
  /\ arg.m[1] = held.obj.m[2]
  /\ arg.m[2] = held.obj.m[1]
  /\ ret = String(held.sig)

\* The entry e of a decrypt payload is one that the /encrypt response the
\* client holds gave it.
FromEncrypt(e) ==
  /\ held.kind = "encrypted"
  /\ held.out.t = "obj"
  /\ \E j \in 1..Len(held.out.m) : held.out.m[j] = e

\* The entry e of the payload is in the response with its value unchanged.
Unchanged(e) ==
  /\ ret.t = "obj"
  /\ HasKey(ret.m, e[1])
  /\ Get(ret.m, e[1]) = e[2]

\* C9: every top-level field of a decrypt payload whose value
\* no encrypt call produced is in the response with exactly its value, and
\* a payload in which nothing was encrypted comes back as it is.
C9_PlainFieldsUnchanged ==
  call = "decrypt" =>
    /\ arg.t = "obj" =>
         \A i \in 1..Len(arg.m) : ~FromEncrypt(arg.m[i]) => Unchanged(arg.m[i])
    /\ held.kind = "none" => ret = arg

C11_EncryptDepthOne ==
  call = "encrypt" =>
    IF arg.t = "obj"
    THEN /\ ret.t = "obj"
         /\ Len(ret.m) = Len(arg.m)
         /\ Keys(ret.m) = Keys(arg.m)
         /\ \A i \in 1..Len(arg.m) :
              Get(ret.m, arg.m[i][1]) = String(b64_encode(to_json(arg.m[i][2])))
    ELSE ret = String(b64_encode(to_json(arg)))

\* /encrypt was called with an object holding a nested object: its value
\* came back as a string and its inner key is no key of the response.
C11_Witness ==
  /\ call = "encrypt"
  /\ arg.t = "obj"
  /\ \E i \in 1..Len(arg.m) :
       /\ arg.m[i][2].t = "obj"
       /\ Len(arg.m[i][2].m) > 0
       /\ ~HasKey(ret.m, arg.m[i][2].m[1][1])
       /\ is_string(Get(ret.m, arg.m[i][1]))

\* A string is standard base64: groups of four characters of the alphabet,
\* the last group ending in at most two padding characters, and the bits of
\* the last character that no byte uses are zero.
IsStandardBase64(s) ==
  LET n == Len(s)
      pad == Cardinality({i \in 1..n : s[i] = 61})
  IN /\ n % 4 = 0
     /\ pad <= 2
     /\ \A i \in 1..n : IF i > n - pad THEN s[i] = 61 ELSE B64Val(s[i]) >= 0
     /\ pad = 1 => B64Val(s[n - 1]) % 4 = 0
     /\ pad = 2 => B64Val(s[n - 2]) % 16 = 0

\* C12: Base64Encryptor.decrypt returns None for a value that is no string,
\* for a string that is no standard base64, and for a string whose decoded
\* bytes are no JSON text; it returns Some(value) only for a string that
\* decodes as a whole to bytes that parse as a whole, and then the value is
\* the one the text denotes.
C12_DecodeAllOrNothing ==
  call = "Base64Encryptor.decrypt" =>
    /\ ~is_string(arg) => ret = None
    /\ is_string(arg) /\ ~IsStandardBase64(arg.s) => ret = None
    /\ \A t \in NotJsonTexts : arg = String(b64_encode(t)) => ret = None
    /\ \A c \in JsonCases : arg = String(b64_encode(c[1])) => ret = Some(c[2])
    /\ ret # None =>
         /\ ret.t = "some"
         /\ is_string(arg)
         /\ IsStandardBase64(arg.s)
         /\ b64_decode(arg.s).ok
         /\ from_slice(b64_decode(arg.s).bytes) = [ok |-> TRUE, v |-> ret.v]

\* decrypt was given base64 of a JSON value followed by other bytes and
\* returned None.
C12_Witness ==
  /\ call = "Base64Encryptor.decrypt"
  /\ arg = String(b64_encode(Str(<<"1", "x">>)))
  /\ IsStandardBase64(arg.s)
  /\ ret = None

\* The text of a signature with its letters in lower case.
LowerCase(s) == [i \in 1..Len(s) |-> IF s[i] >= 65 /\ s[i] <= 90 THEN s[i] + 32 ELSE s[i]]

\* A body of /verify has a string signature and an object data, and the
\* signature is the one of data.
Accepted(body) ==
  /\ body.t = "obj"
  /\ HasKey(body.m, SignatureKey)
  /\ HasKey(body.m, DataKey)
  /\ Get(body.m, SignatureKey).t = "str"
  /\ Get(body.m, DataKey).t = "obj"
  /\ LowerCase(Get(body.m, SignatureKey).s) =
       HMacSigner_sign(key, Get(body.m, DataKey).m).s

\* C13: POST /verify returns 204 when the body has a string signature and
\* an object data that the signature matches, and 400 for every other body.
C13_VerifyOutcome ==
  call = "POST /verify" =>
    ret = IF Accepted(arg) THEN StatusCode(NO_CONTENT)
          ELSE StatusCode(BAD_REQUEST)

\* What a request returns when it is the only one the process ever gets.
Alone(route, body) ==
  route_handler(HMacSigner_new(held.HMAC_SECRET), route, body)

\* Every call that has returned returned what it returns alone, and the key
\* of SIGNER, if set, is the secret of the process.
Independent ==
  /\ \A t \in Threads : pc[t] = "done" => ret[t] = Alone(call[t], arg[t])
  /\ key.once = "complete" => key.value = HMacSigner_new(held.HMAC_SECRET)

\* C14: under every interleaving of concurrent requests each call returns
\* what it returns when run alone; the key of SIGNER, once set, is the
\* secret of the process, and no later step changes it.
C14_CallsIndependent ==
  /\ []Independent
  /\ [][key.once = "complete" => key' = key]_vars

\* A task has answered a /sign request, having waited for the task that
\* initialised SIGNER, which is now about to answer a /verify request.
C14_Witness ==
  \E t, u \in Threads :
    /\ t # u
    /\ pc[t] = "done" /\ call[t] = "sign" /\ arg[t].t = "obj"
    /\ pc[u] = "received" /\ call[u] = "verify" /\ UsesSigner(call[u], arg[u])
    /\ key.once = "complete"

\* The entries of an object in ascending order of their keys.
ByKey(m) ==
  LET rank(i) == 1 + Cardinality({j \in 1..Len(m) : StrLess(m[j][1], m[i][1])})
  IN [r \in 1..Len(m) |-> m[CHOOSE i \in 1..Len(m) : rank(i) = r]]

\* C15: map_to_string returns the renderings key=value; of the top-level
\* pairs, joined without a separator, in ascending order of the keys; the
\* empty string for the empty object.
C15_OrderedByKey ==
  call = "map_to_string" =>
    ret.s = Concat([r \in 1..Len(arg.m) |->
                      ByKey(arg.m)[r][1] \o <<61>> \o
                      to_json(ByKey(arg.m)[r][2]) \o <<59>>])

\* What the decrypt path makes of one value: the decoded value when the
\* codec returns one, the value itself when it returns None.
Policy(v) ==
  IF Base64Encryptor_decrypt(v) = None THEN v ELSE Base64Encryptor_decrypt(v).v

IsValue(v) == v.t \in {"null", "bool", "num", "str", "arr", "obj"}

Resized(c, s) ==
  /\ c # s
  /\ \/ Len(c) < Len(s) /\ c = SubSeq(s, 1, Len(c))
     \/ /\ Len(c) > Len(s)
        /\ s = SubSeq(c, 1, Len(s))
        /\ \A i \in (Len(s) + 1)..Len(c) : HexVal(c[i]) >= 0

\* C17: verify returns false for every candidate whose hexadecimal text
\* decodes to a number of bytes other than DigestLen: the empty string,
\* every proper prefix of the signature of the object, and the signature
\* with hexadecimal digits appended.
C17_FullLengthOnly ==
  call = "verify" =>
    /\ cand = <<>> => ret = Bool(FALSE)
    /\ held.kind = "signed" /\ arg = held.obj /\ Resized(cand, held.sig) =>
         ret = Bool(FALSE)
    /\ ( /\ decode_hex(cand, 0, <<>>).t = "ok"
         /\ Len(decode_hex(cand, 0, <<>>).bytes) # DigestLen ) =>
         ret = Bool(FALSE)

====
